---- MODULE Spec2Model ----
(***************************************************************************)
(* MatMul CPU kernel (onnxruntime/core/providers/cpu/math/matmul.cc).      *)
(*                                                                         *)
(* State: two MatMul<float> kernel instances (attributes, packed_b_,       *)
(* b_shape_), one PrepackedWeight cache record they may share, the heap of *)
(* packed buffers, and the outcome of the last call.  MatMul<T> instances  *)
(* for the other element types have no fields.                             *)
(***************************************************************************)
EXTENDS Integers, Sequences, FiniteSets, TLC

\* ---------------------------------------------------------------- bounds
MaxBuffers == 2
NumThreads == 2

\* ---------------------------------------------------------------- inputs
NULL == 0
FloatKernels == {1, 2}
GenericTypes == {"double", "int32_t", "int64_t"}
ElemTypes == {"float"} \cup GenericTypes
Buffers == 1..MaxBuffers
Threads == 1..NumThreads

\* B tensors: an identity (its contents) and a shape.
Tensors == {1, 2, 3}
TensorShape(t) == CASE t = 1 -> <<2, 2>>
                    [] t = 2 -> <<2, 3>>
                    [] OTHER -> <<2, 2, 2>>
\* Shapes of the A input.
AShapes == {<<2>>, <<2, 2>>, <<0, 2>>, <<2, 1, 2>>}
Attrs == {[trans_a_attr_ |-> FALSE, trans_b_attr_ |-> FALSE, alpha_attr_ |-> 1],
          [trans_a_attr_ |-> TRUE, trans_b_attr_ |-> TRUE, alpha_attr_ |-> 2]}
\* Inputs of the calls that run concurrently.
ConcAShapes == {<<2, 1, 2>>}
ConcTensors == {1, 3}
InputIdx == {0, 1}

\* ------------------------------------------------------ TensorShape helpers
RECURSIVE Prod(_)
Prod(s) == IF s = <<>> THEN 1 ELSE Head(s) * Prod(Tail(s))
Size(shape) == Prod(shape)
NumDimensions(shape) == Len(shape)
Range(s) == {s[i] : i \in DOMAIN s}
Max(a, b) == IF a >= b THEN a ELSE b
RECURSIVE Sum(_)
Sum(s) == IF s = <<>> THEN 0 ELSE Head(s) + Sum(Tail(s))
Ones(n) == [i \in 1..n |-> 1]
Suffix(s, i) == SubSeq(s, i + 1, Len(s))

\* ------------------------------------------------- MatMulComputeHelper
\* Shape Broadcast Resolver and Batch Offset Computer.
BatchDims(shape) == IF Len(shape) <= 2 THEN <<>> ELSE SubSeq(shape, 1, Len(shape) - 2)
PadLeft(dims, n) == Ones(n - Len(dims)) \o dims
BatchIndex(batch, j, axis) == (j \div Prod(Suffix(batch, axis))) % batch[axis]
BatchOffset(own, batch, j, block) ==
  Sum([axis \in 1..Len(batch) |->
         IF own[axis] = 1 THEN 0
         ELSE BatchIndex(batch, j, axis) * Prod(Suffix(own, axis)) * block])

HelperCompute(left, right, transa, transb) ==
  LET ra == Len(left)
      rb == Len(right)
  IN IF ra = 0 \/ rb = 0 THEN [status |-> "InvalidRank"] ELSE
  LET aVec == ra = 1
      bVec == rb = 1
      ta == transa /\ ~aVec
      tb == transb /\ ~bVec
      M  == IF aVec THEN 1 ELSE IF ta THEN left[ra] ELSE left[ra - 1]
      Ka == IF aVec THEN left[1] ELSE IF ta THEN left[ra - 1] ELSE left[ra]
      Kb == IF bVec THEN right[1] ELSE IF tb THEN right[rb] ELSE right[rb - 1]
      N  == IF bVec THEN 1 ELSE IF tb THEN right[rb - 1] ELSE right[rb]
      n  == Max(Len(BatchDims(left)), Len(BatchDims(right)))
      padA == PadLeft(BatchDims(left), n)
      padB == PadLeft(BatchDims(right), n)
      batch == [i \in 1..n |-> IF padA[i] = 1 THEN padB[i] ELSE padA[i]]
      num == Prod(batch)
  IN IF Ka # Kb THEN [status |-> "ShapeMismatch"]
     ELSE IF \E i \in 1..n : padA[i] # padB[i] /\ padA[i] # 1 /\ padB[i] # 1
     THEN [status |-> "BroadcastIncompatible"]
     ELSE [status |-> "OK", M |-> M, N |-> N, K |-> Ka,
           OutputShape |-> batch \o (IF aVec THEN <<>> ELSE <<M>>)
                                 \o (IF bVec THEN <<>> ELSE <<N>>),
           LeftOffsets   |-> [j \in 1..num |-> BatchOffset(padA, batch, j - 1, M * Ka)],
           RightOffsets  |-> [j \in 1..num |-> BatchOffset(padB, batch, j - 1, Ka * N)],
           OutputOffsets |-> [j \in 1..num |-> (j - 1) * M * N]]

\* ------------------------------------------------------------- state
VARIABLES attrs,        \* per MatMul<float> instance: trans_a_attr_, trans_b_attr_, alpha_attr_
          alive,        \* the instance has not been destroyed
          packed_b_,    \* BufferUniquePtr: [ptr, deleter]
          b_shape_,     \* TensorShape recorded when packing
          prepacked,    \* tensor given to the instance's last successful PrePack (0: none)
          cache,        \* the PrepackedWeight record: buffers_, shapes_, weights_sizes_, is_filled_
          heap,         \* per packed buffer: allocation state and what was packed into it
          last,         \* the call that returned last, with its outputs
          pc, frame     \* per thread: position inside Compute and its locals

kernelVars == <<attrs, alive, packed_b_, b_shape_>>
vars == <<attrs, alive, packed_b_, b_shape_, prepacked, cache, heap, last, pc, frame>>

NullPtr == [ptr |-> NULL, deleter |-> "null"]
EmptyRecord == [buffers_ |-> <<>>, shapes_ |-> <<>>, weights_sizes_ |-> <<>>, is_filled_ |-> FALSE]
Unallocated == [state |-> "unallocated", tensor |-> 0, trans_b |-> FALSE]

\* BufferDeleter::operator(): frees through the allocator unless the allocator is null.
Free(h, p) ==
  IF p.ptr = NULL \/ p.deleter = "null" THEN h
  ELSE [h EXCEPT ![p.ptr].state = IF @ = "live" THEN "freed" ELSE "double_freed"]

\* --------------------------------------------------- kernel registrations
\* (Faulty variant: double registered with the float specialisation.)
KernelClass_DoubleAsFloat(type) ==
  IF type \in {"float", "double"} THEN "MatMul<float>" ELSE "MatMul<T>"
\* Which Compute body the registered kernel class of an element type runs.
KernelClass(type) == IF type = "float" THEN "MatMul<float>" ELSE "MatMul<T>"

\* ------------------------------------------------------ Compute (both bodies)
\* (Faulty variant: the empty-output check is missing.)
OutputIsEmpty_Never(shape) == FALSE
\* Bail out early if the output is going to be empty.
OutputIsEmpty(shape) == Size(shape) = 0

Failed(st, fetched, bshape, ta, tb) ==
  [status |-> st, fetched_b |-> fetched, b_shape |-> bshape, trans_a |-> ta, trans_b |-> tb,
   allocated |-> FALSE, gemm |-> "none", gemm_calls |-> 0, data |-> <<>>]

\* MatMul<T>::Compute
GenericCompute(a, b) ==
  LET h == HelperCompute(a, TensorShape(b), FALSE, FALSE)
  IN IF h.status # "OK" THEN Failed(h.status, TRUE, TensorShape(b), FALSE, FALSE)
     ELSE LET empty == OutputIsEmpty(h.OutputShape)
              max_len == Len(h.OutputOffsets)
          IN [status |-> "OK", fetched_b |-> TRUE, b_shape |-> TensorShape(b),
              trans_a |-> FALSE, trans_b |-> FALSE,
              allocated |-> TRUE, out_shape |-> h.OutputShape,
              M |-> h.M, N |-> h.N, K |-> h.K,
              gemm |-> IF empty \/ max_len = 0 THEN "none" ELSE "math::MatMul",
              gemm_calls |-> IF empty THEN 0 ELSE max_len,
              data |-> IF empty THEN <<>>
                       ELSE [i \in 1..max_len |->
                               [A |-> [base |-> "a_data", off |-> h.LeftOffsets[i]],
                                B |-> [base |-> "b_data", tensor |-> b, off |-> h.RightOffsets[i]],
                                C |-> [base |-> "y_data", off |-> h.OutputOffsets[i]]]]]

\* (Faulty variant: input 1 is fetched whether or not B is packed.)
FetchesB_Always(packed) == TRUE
\* const Tensor* b = packed_b_ ? nullptr : ctx->Input<Tensor>(1);
FetchesB(packed) == packed.ptr = NULL
\* data[i].BIsPacked = bool(packed_b_);
BIsPacked(packed) == packed.ptr # NULL

\* MatMul<float>::Compute up to the empty-output check: the locals it keeps.
FloatPrologue(packed, bshape, attr, a, b) ==
  LET fetched == FetchesB(packed)
      b_shape == IF fetched THEN TensorShape(b) ELSE bshape
      trans_a == attr.trans_a_attr_ /\ NumDimensions(a) # 1
      trans_b == attr.trans_b_attr_ /\ NumDimensions(b_shape) # 1
  IN [fetched_b |-> fetched, b_shape |-> b_shape, trans_a |-> trans_a, trans_b |-> trans_b,
      helper |-> HelperCompute(a, b_shape, trans_a, trans_b), tensor |-> IF fetched THEN b ELSE 0]

\* MatMul<float>::Compute from the data pointers to MlasGemmBatch.
FloatEpilogue(loc, packed, attr) ==
  LET h == loc.helper
  IN IF h.status # "OK" THEN Failed(h.status, loc.fetched_b, loc.b_shape, loc.trans_a, loc.trans_b)
     ELSE LET empty == OutputIsEmpty(h.OutputShape)
              max_len == Len(h.OutputOffsets)
              lda == IF loc.trans_a THEN h.M ELSE h.K
              ldb == IF loc.trans_b THEN h.K ELSE h.N
          IN [status |-> "OK", fetched_b |-> loc.fetched_b, b_shape |-> loc.b_shape,
              trans_a |-> loc.trans_a, trans_b |-> loc.trans_b,
              allocated |-> TRUE, out_shape |-> h.OutputShape,
              M |-> h.M, N |-> h.N, K |-> h.K,
              gemm |-> IF empty THEN "none" ELSE "MlasGemmBatch",
              gemm_calls |-> IF empty THEN 0 ELSE 1,
              data |-> IF empty THEN <<>>
                       ELSE [i \in 1..max_len |->
                               [BIsPacked |-> BIsPacked(packed),
                                A |-> [base |-> "a_data", off |-> h.LeftOffsets[i]],
                                lda |-> lda,
                                B |-> IF BIsPacked(packed)
                                      THEN [base |-> "packed_b_", buffer |-> packed.ptr, off |-> 0]
                                      ELSE [base |-> "b_data", tensor |-> loc.tensor,
                                            off |-> h.RightOffsets[i]],
                                ldb |-> ldb,
                                C |-> [base |-> "y_data", off |-> h.OutputOffsets[i]],
                                ldc |-> h.N,
                                alpha |-> attr.alpha_attr_,
                                beta |-> 0]]]

\* One whole MatMul<float>::Compute call against a given instance state.
FloatCompute(packed, bshape, attr, a, b) ==
  FloatEpilogue(FloatPrologue(packed, bshape, attr, a, b), packed, attr)

\* ------------------------------------------------------------ pack primitive
\* (Faulty variant: the primitive packs a B of any rank.)
PackDeclines_Never(shape) == FALSE
\* GemmPackBFp32 declines a B that has batch dimensions.
PackDeclines(shape) == NumDimensions(shape) > 2

FreshBuffer(h) == CHOOSE id \in Buffers : h[id].state = "unallocated" /\
                     \A other \in Buffers : h[other].state = "unallocated" => id <= other

\* GemmPackBFp32(alloc, tensor, trans_b, packed_b, b_shape): on success a new buffer
\* replaces packed_b (releasing what it held) and b_shape records the shape.
GemmPackBFp32(tensor, trans_b, packed, bshape, h, accept) ==
  IF PackDeclines(TensorShape(tensor)) \/ ~accept
  THEN [is_packed |-> FALSE, packed_b |-> packed, b_shape |-> bshape, heap |-> h]
  ELSE LET id == FreshBuffer(h)
           h1 == [h EXCEPT ![id] = [state |-> "live", tensor |-> tensor, trans_b |-> trans_b]]
       IN [is_packed |-> TRUE, packed_b |-> [ptr |-> id, deleter |-> "alloc"],
           b_shape |-> TensorShape(tensor), heap |-> Free(h1, packed)]

\* ------------------------------------------------------------------ PrePack
\* (Faulty variant: every input is packed.)
PacksInput_Any(input_idx) == TRUE
\* only pack Matrix B
PacksInput(input_idx) == input_idx = 1
\* (Faulty variant: the buffer is moved to the record without looking at is_packed.)
MovesToCache_Unchecked(is_packed, kernel_owns_prepacked_buffer) ==
  ~kernel_owns_prepacked_buffer
\* if (is_packed && !kernel_owns_prepacked_buffer)
MovesToCache(is_packed, kernel_owns_prepacked_buffer) ==
  is_packed /\ ~kernel_owns_prepacked_buffer
\* (Faulty variant: the alias is given the allocator's deleter.)
PrePackAlias_Owning(buffers) == [ptr |-> buffers[1], deleter |-> "alloc"]
\* BufferUniquePtr(prepacked_weight_for_caching->buffers_[0].get(), BufferDeleter(nullptr))
PrePackAlias(buffers) == [ptr |-> buffers[1], deleter |-> "null"]

\* withRecord: prepacked_weight_for_caching is not null.  accept: the answer of
\* the pack primitive.  Preparation calls are serialised by the caller against
\* each other and against Compute, hence no Compute is running.
PrePack(k, tensor, input_idx, withRecord, accept) ==
  /\ alive[k]
  /\ \A t \in Threads : pc[t] = "idle"
  /\ (PacksInput(input_idx) /\ accept /\ ~PackDeclines(TensorShape(tensor)))
        => \E id \in Buffers : heap[id].state = "unallocated"
  /\ LET kernel_owns_prepacked_buffer == ~withRecord
         g == IF PacksInput(input_idx)
              THEN GemmPackBFp32(tensor, attrs[k].trans_b_attr_, packed_b_[k], b_shape_[k], heap, accept)
              ELSE [is_packed |-> FALSE, packed_b |-> packed_b_[k], b_shape |-> b_shape_[k], heap |-> heap]
         moves == PacksInput(input_idx) /\ MovesToCache(g.is_packed, kernel_owns_prepacked_buffer)
         buffers1 == Append(cache.buffers_, g.packed_b.ptr)
     IN /\ cache' = IF moves
                    THEN [buffers_ |-> buffers1,
                          shapes_ |-> Append(cache.shapes_, g.b_shape),
                          weights_sizes_ |-> Append(cache.weights_sizes_, Size(g.b_shape)),
                          is_filled_ |-> TRUE]
                    ELSE cache
        /\ packed_b_' = [packed_b_ EXCEPT ![k] = IF moves THEN PrePackAlias(buffers1) ELSE g.packed_b]
        /\ b_shape_' = [b_shape_ EXCEPT ![k] = g.b_shape]
        /\ heap' = g.heap
        /\ prepacked' = [prepacked EXCEPT ![k] = IF g.is_packed THEN tensor ELSE @]
        /\ last' = [op |-> "PrePack", k |-> k, input_idx |-> input_idx,
                    withRecord |-> withRecord, status |-> "OK", is_packed |-> g.is_packed]
  /\ UNCHANGED <<attrs, alive, pc, frame>>

\* -------------------------------------------------- UseCachedPrePackedWeight
\* BufferUniquePtr(cached_prepacked_weight.buffers_[0].get(), BufferDeleter(nullptr))
CachedAlias(buffers) == [ptr |-> buffers[1], deleter |-> "null"]

\* The record handed in is a cache hit: it has been filled by a PrePack, so
\* buffers_[0] and shapes_[0] exist.
UseCachedPrePackedWeight(k, input_idx) ==
  /\ alive[k]
  /\ \A t \in Threads : pc[t] = "idle"
  /\ cache.is_filled_
  /\ IF input_idx = 1
     THEN /\ packed_b_' = [packed_b_ EXCEPT ![k] = CachedAlias(cache.buffers_)]
          /\ b_shape_' = [b_shape_ EXCEPT ![k] = cache.shapes_[1]]
          /\ heap' = Free(heap, packed_b_[k])
          /\ prepacked' = [prepacked EXCEPT ![k] = 0]
     ELSE UNCHANGED <<packed_b_, b_shape_, heap, prepacked>>
  /\ last' = [op |-> "UseCachedPrePackedWeight", k |-> k, input_idx |-> input_idx,
              status |-> "OK", read_from_cache |-> (input_idx = 1)]
  /\ UNCHANGED <<attrs, alive, cache, pc, frame>>

\* ------------------------------------------------------------- destruction
\* ~MatMul<float>: the packed_b_ member runs its deleter.
Destroy(k) ==
  /\ alive[k]
  /\ \A t \in Threads : pc[t] = "idle"
  /\ alive' = [alive EXCEPT ![k] = FALSE]
  /\ heap' = Free(heap, packed_b_[k])
  /\ packed_b_' = [packed_b_ EXCEPT ![k] = NullPtr]
  /\ b_shape_' = [b_shape_ EXCEPT ![k] = <<>>]
  /\ prepacked' = [prepacked EXCEPT ![k] = 0]
  /\ last' = [op |-> "Destroy", k |-> k, status |-> "OK"]
  /\ UNCHANGED <<attrs, cache, pc, frame>>

\* ------------------------------------------------------------------ Compute
DefaultAttrs == [trans_a_attr_ |-> FALSE, trans_b_attr_ |-> FALSE, alpha_attr_ |-> 1]
InstancePacked(k) == IF k \in FloatKernels THEN packed_b_[k] ELSE NullPtr
InstanceShape(k) == IF k \in FloatKernels THEN b_shape_[k] ELSE <<>>
InstanceAttrs(k) == IF k \in FloatKernels THEN attrs[k] ELSE DefaultAttrs
\* Instances a Compute of the element type can run on (0: an instance without fields).
Instances(type) == IF type = "float" THEN {k \in FloatKernels : alive[k]} ELSE {0}

RunCompute(type, k, a, b) ==
  IF KernelClass(type) = "MatMul<float>"
  THEN FloatCompute(InstancePacked(k), InstanceShape(k), InstanceAttrs(k), a, b)
  ELSE GenericCompute(a, b)

\* A whole Compute call, no other call running.
Compute(type, k, a, b) ==
  /\ k \in Instances(type)
  /\ \A t \in Threads : pc[t] = "idle"
  /\ last' = [op |-> "Compute", type |-> type, k |-> k, a |-> a, b |-> b,
              body |-> KernelClass(type), res |-> RunCompute(type, k, a, b)]
  /\ UNCHANGED <<attrs, alive, packed_b_, b_shape_, prepacked, cache, heap, pc, frame>>

\* Compute calls running on several threads, each in three steps:
\* inputs and shapes resolved; descriptors built and handed to the GEMM
\* primitive; return (the locals are destroyed).
\* (Faulty variant: Compute records the shape of B in the instance.)
ComputeBegin_RecordsShape(th, type, k, a, b) ==
  /\ pc[th] = "idle"
  /\ k \in Instances(type)
  /\ pc' = [pc EXCEPT ![th] = "running"]
  /\ LET loc == IF KernelClass(type) = "MatMul<float>"
                THEN FloatPrologue(InstancePacked(k), InstanceShape(k), InstanceAttrs(k), a, b)
                ELSE <<>>
     IN /\ frame' = [frame EXCEPT ![th] = [type |-> type, k |-> k, a |-> a, b |-> b, loc |-> loc]]
        /\ b_shape_' = IF k \in FloatKernels THEN [b_shape_ EXCEPT ![k] = loc.b_shape]
                       ELSE b_shape_
  /\ UNCHANGED <<attrs, alive, packed_b_, prepacked, cache, heap, last>>

ComputeBegin(th, type, k, a, b) ==
  /\ pc[th] = "idle"
  /\ k \in Instances(type)
  /\ pc' = [pc EXCEPT ![th] = "running"]
  /\ frame' = [frame EXCEPT ![th] =
                 [type |-> type, k |-> k, a |-> a, b |-> b,
                  loc |-> IF KernelClass(type) = "MatMul<float>"
                          THEN FloatPrologue(InstancePacked(k), InstanceShape(k), InstanceAttrs(k), a, b)
                          ELSE <<>>]]
  /\ UNCHANGED <<attrs, alive, packed_b_, b_shape_, prepacked, cache, heap, last>>

ComputeDispatch(th) ==
  /\ pc[th] = "running"
  /\ pc' = [pc EXCEPT ![th] = "done"]
  /\ LET f == frame[th]
     IN frame' = [frame EXCEPT ![th] =
                    [type |-> f.type, k |-> f.k, a |-> f.a, b |-> f.b,
                     res |-> IF KernelClass(f.type) = "MatMul<float>"
                             THEN FloatEpilogue(f.loc, InstancePacked(f.k), InstanceAttrs(f.k))
                             ELSE GenericCompute(f.a, f.b)]]
  /\ UNCHANGED <<attrs, alive, packed_b_, b_shape_, prepacked, cache, heap, last>>

ComputeReturn(th) ==
  /\ pc[th] = "done"
  /\ pc' = [pc EXCEPT ![th] = "idle"]
  /\ frame' = [frame EXCEPT ![th] = <<>>]
  /\ UNCHANGED <<attrs, alive, packed_b_, b_shape_, prepacked, cache, heap, last>>

\* ------------------------------------------------------------ specifications
Init ==
  /\ attrs \in [FloatKernels -> Attrs]
  /\ alive = [k \in FloatKernels |-> TRUE]
  /\ packed_b_ = [k \in FloatKernels |-> NullPtr]
  /\ b_shape_ = [k \in FloatKernels |-> <<>>]
  /\ prepacked = [k \in FloatKernels |-> 0]
  /\ cache = EmptyRecord
  /\ heap = [id \in Buffers |-> Unallocated]
  /\ last = [op |-> "none"]
  /\ pc = [t \in Threads |-> "idle"]
  /\ frame = [t \in Threads |-> <<>>]

\* What the pack primitive may answer for a tensor.
Answers(tensor) == IF PackDeclines(TensorShape(tensor)) THEN {FALSE} ELSE BOOLEAN

\* The MatMul<float> instances of a session: preparation (PrePack, cache
\* adoption) and Compute calls one at a time.  Both instances prepare; the
\* Compute calls observed are those of instance 1, instance 2 being the other
\* user of the cache record.
Next ==
  \/ \E k \in FloatKernels, tensor \in Tensors, withRecord \in BOOLEAN :
       \E accept \in Answers(tensor) : PrePack(k, tensor, 1, withRecord, accept)
  \/ \E k \in FloatKernels : PrePack(k, 1, 0, TRUE, TRUE)
  \/ \E k \in FloatKernels, input_idx \in InputIdx : UseCachedPrePackedWeight(k, input_idx)
  \/ \E a \in AShapes, b \in Tensors : Compute("float", 1, a, b)

Spec == Init /\ [][Next]_vars

\* Ownership of the packed buffers over the instances' lifetime: preparation
\* and destruction.
NextLifetime ==
  \/ \E k \in FloatKernels, tensor \in Tensors, withRecord \in BOOLEAN :
       \E accept \in Answers(tensor) : PrePack(k, tensor, 1, withRecord, accept)
  \/ \E k \in FloatKernels, withRecord \in BOOLEAN, accept \in BOOLEAN :
       PrePack(k, 1, 0, withRecord, accept)
  \/ \E k \in FloatKernels, input_idx \in InputIdx : UseCachedPrePackedWeight(k, input_idx)
  \/ \E k \in FloatKernels : Destroy(k)

SpecLifetime == Init /\ [][NextLifetime]_vars

\* Kernels of every element type; the float instances pack for themselves.
NextTypes ==
  \/ \E k \in FloatKernels, tensor \in Tensors :
       \E accept \in Answers(tensor) : PrePack(k, tensor, 1, FALSE, accept)
  \/ \E type \in ElemTypes, k \in FloatKernels \cup {0}, a \in AShapes, b \in Tensors :
       Compute(type, k, a, b)

SpecTypes == Init /\ [][NextTypes]_vars

\* One float instance and one double instance called from several threads.
NextConc ==
  \/ \E tensor \in Tensors :
       \E accept \in Answers(tensor) : PrePack(1, tensor, 1, FALSE, accept)
  \/ \E th \in Threads, type \in {"float", "double"}, a \in ConcAShapes, b \in ConcTensors :
       ComputeBegin(th, type, IF type = "float" THEN 1 ELSE 0, a, b)
  \/ \E th \in Threads : ComputeDispatch(th)
  \/ \E th \in Threads : ComputeReturn(th)

SpecConc == Init /\ [][NextConc]_vars

\* ==================================================================== claims
IsFloatCompute == last.op = "Compute" /\ last.type = "float"
LastOf(seq) == seq[Len(seq)]

\* C1: when packed_b_ is non-null, the float Compute does not fetch input 1,
\* takes B's shape from b_shape_, and every batch descriptor has BIsPacked set
\* and B equal to the packed buffer pointer (no raw pointer, no RightOffsets).
C1_PackedComputeIgnoresRawB ==
  (IsFloatCompute /\ packed_b_[last.k].ptr # NULL) =>
     /\ ~last.res.fetched_b
     /\ last.res.b_shape = b_shape_[last.k]
     /\ \A i \in DOMAIN last.res.data :
          /\ last.res.data[i].BIsPacked
          /\ last.res.data[i].B = [base |-> "packed_b_", buffer |-> packed_b_[last.k].ptr, off |-> 0]

C1_Witness ==
  /\ IsFloatCompute
  /\ packed_b_[last.k].ptr # NULL
  /\ last.res.status = "OK"
  /\ Len(last.res.data) = 2

\* C2: every packed buffer has exactly one owner.  A kernel pointer to a buffer
\* held in the record's buffers_ carries a null deleter, a buffer held by the
\* record is never freed by a kernel, and no buffer is freed twice.
Owners(id) ==
  Cardinality({k \in FloatKernels : packed_b_[k].ptr = id /\ packed_b_[k].deleter = "alloc"})
    + Cardinality({i \in DOMAIN cache.buffers_ : cache.buffers_[i] = id})
C2_SingleOwner ==
  /\ \A k \in FloatKernels :
       (packed_b_[k].ptr # NULL /\ packed_b_[k].ptr \in Range(cache.buffers_))
          => packed_b_[k].deleter = "null"
  /\ \A id \in Range(cache.buffers_) : id \in Buffers /\ heap[id].state = "live"
  /\ \A id \in Buffers : heap[id].state # "double_freed"
  /\ \A id \in Buffers : heap[id].state = "live" => Owners(id) = 1

C2_Witness ==
  /\ cache.is_filled_
  /\ \E k \in FloatKernels : ~alive[k]
  /\ \E k \in FloatKernels : packed_b_[k].ptr \in Range(cache.buffers_)
  /\ \E id \in Buffers : heap[id].state = "freed"

\* C3: Compute leaves every field of the instance unchanged, and each of the
\* Compute calls running concurrently gets the status and the descriptors it
\* would get running alone.
C3_ComputeReadsOnly ==
  /\ [](\A th \in Threads :
          pc[th] = "done" =>
            frame[th].res = RunCompute(frame[th].type, frame[th].k, frame[th].a, frame[th].b))
  /\ [][pc' # pc => UNCHANGED <<attrs, alive, packed_b_, b_shape_>>]_vars

C3_Witness ==
  /\ packed_b_[1].ptr # NULL
  /\ \E t1 \in Threads, t2 \in Threads :
       /\ t1 # t2
       /\ pc[t1] = "done" /\ frame[t1].k = 1 /\ Len(frame[t1].res.data) = 2
       /\ pc[t2] = "running" /\ frame[t2].k = 1

\* C4 as claimed: once packed_b_ is non-null, no later PrePack or
\* UseCachedPrePackedWeight call replaces it while the instance lives.
C4_NeverReplaced ==
  [][\A k \in FloatKernels :
       (packed_b_[k].ptr # NULL /\ alive'[k]) => packed_b_'[k].ptr = packed_b_[k].ptr]_vars

\* C4 amended: once packed_b_ is non-null it stays non-null while the instance
\* lives, and only a PrePack on input 1 that packs or a
\* UseCachedPrePackedWeight on input 1 puts another buffer in its place.
C4_ReplacedOnlyByPacking ==
  [][\A k \in FloatKernels :
       (packed_b_[k].ptr # NULL /\ alive'[k]) =>
          /\ packed_b_'[k].ptr # NULL
          /\ packed_b_'[k].ptr # packed_b_[k].ptr =>
               /\ last'.k = k
               /\ last'.input_idx = 1
               /\ \/ last'.op = "UseCachedPrePackedWeight"
                  \/ last'.op = "PrePack" /\ last'.is_packed]_vars

C4_Witness ==
  /\ last.op = "PrePack"
  /\ ~last.is_packed
  /\ packed_b_[last.k].ptr # NULL
  /\ \E id \in Buffers : heap[id].state = "freed"

\* C5: a PrePack on input 1 in which the pack primitive declines returns OK
\* with is_packed false, leaves the cache record and the instance's packed
\* state as they were; a Compute on an instance that is not packed reads the
\* raw B tensor with BIsPacked false.
C5_DeclineChangesNothing ==
  /\ [][(last'.op = "PrePack" /\ last'.input_idx = 1 /\ ~last'.is_packed) =>
          /\ last'.status = "OK"
          /\ UNCHANGED <<cache, packed_b_, b_shape_>>]_vars
  /\ []((IsFloatCompute /\ packed_b_[last.k].ptr = NULL) =>
          /\ last.res.fetched_b
          /\ last.res.b_shape = TensorShape(last.b)
          /\ \A i \in DOMAIN last.res.data :
               /\ ~last.res.data[i].BIsPacked
               /\ last.res.data[i].B.base = "b_data"
               /\ last.res.data[i].B.tensor = last.b)

C5_Witness ==
  /\ last.op = "PrePack"
  /\ last.input_idx = 1
  /\ last.withRecord
  /\ ~last.is_packed
  /\ packed_b_[last.k].ptr = NULL
  /\ cache.is_filled_

\* C6: whenever packed_b_ is non-null the recorded b_shape_ has no batch
\* dimension (rank at most 2), so every batch of a Compute has right offset 0
\* and the one packed buffer is the right B slice for all of them.
C6_PackedShapeHasNoBatch ==
  \A k \in FloatKernels :
    packed_b_[k].ptr # NULL =>
      /\ NumDimensions(b_shape_[k]) >= 1
      /\ NumDimensions(b_shape_[k]) <= 2
      /\ \A a \in AShapes :
           LET h == FloatPrologue(packed_b_[k], b_shape_[k], attrs[k], a, 1).helper
           IN h.status = "OK" => \A i \in DOMAIN h.RightOffsets : h.RightOffsets[i] = 0

C6_Witness ==
  /\ last.op = "UseCachedPrePackedWeight"
  /\ last.input_idx = 1
  /\ packed_b_[last.k].ptr # NULL
  /\ Len(cache.buffers_) >= 2

\* C7: Compute on an instance that prepacked B gives the status, output shape,
\* M, N, K, transpose flags, A and C pointers and leading dimensions of a
\* Compute on a never-packed instance given the raw B, and its B is the packed
\* form of that same matrix.
C7_PackingTransparency ==
  (IsFloatCompute /\ prepacked[last.k] # 0) =>
    LET k == last.k
        raw == FloatCompute(NullPtr, <<>>, attrs[k], last.a, prepacked[k])
        got == last.res
    IN /\ got.status = raw.status
       /\ got.status = "OK" =>
            /\ got.out_shape = raw.out_shape
            /\ <<got.M, got.N, got.K>> = <<raw.M, raw.N, raw.K>>
            /\ <<got.trans_a, got.trans_b>> = <<raw.trans_a, raw.trans_b>>
            /\ got.gemm = raw.gemm
            /\ Len(got.data) = Len(raw.data)
            /\ \A i \in DOMAIN got.data :
                 /\ got.data[i].A = raw.data[i].A
                 /\ got.data[i].C = raw.data[i].C
                 /\ <<got.data[i].lda, got.data[i].ldb, got.data[i].ldc>>
                      = <<raw.data[i].lda, raw.data[i].ldb, raw.data[i].ldc>>
                 /\ <<got.data[i].alpha, got.data[i].beta>> = <<raw.data[i].alpha, raw.data[i].beta>>
                 /\ got.data[i].BIsPacked
                 /\ heap[got.data[i].B.buffer] =
                      [state |-> "live", tensor |-> prepacked[k], trans_b |-> attrs[k].trans_b_attr_]

\* C8: for every element type, a Compute whose resolved output shape has zero
\* elements returns OK with the output allocated, never invokes the GEMM
\* primitive and builds no descriptor.
C8_EmptyOutputSkipsGemm ==
  (last.op = "Compute" /\ last.res.status = "OK" /\ Size(last.res.out_shape) = 0) =>
     /\ last.res.allocated
     /\ last.res.gemm = "none"
     /\ last.res.gemm_calls = 0
     /\ last.res.data = <<>>

C8_Witness ==
  /\ last.op = "Compute"
  /\ last.type \in GenericTypes
  /\ last.res.status = "OK"
  /\ Size(last.res.out_shape) = 0
  /\ \E k \in FloatKernels : packed_b_[k].ptr # NULL

\* C9 as claimed: float and double are computed by the batched GEMM primitive
\* (transpose attributes, alpha, prepacked B); only the integer types by the
\* plain per-batch multiply.
C9_DoubleOnFullPath ==
  (last.op = "Compute" /\ last.res.gemm # "none") =>
     (last.res.gemm = "MlasGemmBatch" <=> last.type \in {"float", "double"})

\* C9 amended: only float is computed by the batched GEMM primitive; double and
\* the integer types are computed by the plain per-batch multiply, which reads
\* the raw B and applies neither transpose, alpha nor packing.
C9_OnlyFloatOnFullPath ==
  last.op = "Compute" =>
     /\ last.body = "MatMul<float>" <=> last.type = "float"
     /\ last.res.gemm # "none" =>
          (last.res.gemm = "MlasGemmBatch" <=> last.type = "float")
     /\ last.type # "float" =>
          /\ last.res.fetched_b
          /\ ~last.res.trans_a /\ ~last.res.trans_b
          /\ \A i \in DOMAIN last.res.data :
               /\ DOMAIN last.res.data[i] = {"A", "B", "C"}
               /\ last.res.data[i].B.base = "b_data"

C9_Witness ==
  /\ last.op = "Compute"
  /\ last.type = "double"
  /\ last.res.gemm = "math::MatMul"
  /\ Len(last.res.data) = 2

\* C10: after a PrePack on input 1 that packs with a cache record supplied,
\* packed_b_ points to the buffer this call packed and moved into the record
\* and b_shape_ is that buffer's shape, whatever the record held before.
C10_AliasIsOwnBuffer ==
  (last.op = "PrePack" /\ last.input_idx = 1 /\ last.is_packed /\ last.withRecord) =>
     LET k == last.k
     IN /\ packed_b_[k].ptr = LastOf(cache.buffers_)
        /\ heap[packed_b_[k].ptr].tensor = prepacked[k]
        /\ b_shape_[k] = LastOf(cache.shapes_)
        /\ b_shape_[k] = TensorShape(heap[packed_b_[k].ptr].tensor)

====
